---- MODULE Spec2Model ----
(***************************************************************************)
(* The studio socket client (the useSocketClient hook): one module-level   *)
(* WebSocket shared by every component that calls the hook, the reconnect  *)
(* timer each hook instance keeps in its own ref, the runtime liveness     *)
(* probe fenced by the instances counter, and the dispatcher of server     *)
(* events into the workflow store.                                         *)
(*                                                                         *)
(* An attachment is one mounted component calling the hook.  Timers are    *)
(* untimed: a pending timer may fire at any moment.  A store change of     *)
(* socketStatus re-renders every mounted attachment before the next task   *)
(* runs, so a re-render is part of the action that changed the status.     *)
(***************************************************************************)
EXTENDS Integers, FiniteSets, Sequences, TLC

\* ---------------------------------------------------------------- bounds
NumAtt == 2
MaxSockets == 2
MaxInstances == 3
NumComponents == 2
MaxRunId == 2

Att == 1..NumAtt
Sock == 1..MaxSockets
Comp == 1..NumComponents
RunId == 1..MaxRunId

\* ------------------------------------------------------------- constants
ReconnectDelay == 5000
LivenessTimeout == 10000
FastCadence == 5000
SlowCadence == 30000
PanelDelay == 500
SliceLen == 140
InfoDuration == 3000
ErrorDuration == 5000

Statuses == {"disconnected", "connecting-socket", "connecting-python", "connected"}

VARIABLES
  socketStatus,               \* store: state.socketStatus
  socks,                      \* the WebSocket objects created so far
  socketInstance,             \* module-level: index of the current WebSocket, 0 = null
  pythonDisconnectedTimeout,  \* module-level: "null", "pending" or "fired" (a stale id)
  livenessTimers,             \* how many 10 s timers of pythonReconnect are pending
  instances,                  \* module-level counter
  lastIsAliveCallTimestamp,   \* module-level: "zero", "recent" (< 5 s ago) or "old"
  mounted,                    \* attachment -> is the component mounted
  instanceId,                 \* attachment -> instanceId captured by its last render
  connStatus,                 \* attachment -> did the handleMessage of its connect capture "connected"
  reconnectTimeoutRef,        \* attachment -> "null" or "pending"
  interval,                   \* attachment -> cadence of its setInterval, 0 = none
  lastRendered,               \* the mounted attachment that called the hook last, 0 = none
  execution,                  \* store: the workflow's execution state
  nodes,                      \* store: component -> its execution_state
  evaluation,                 \* store: the evaluation run's state
  optimization,               \* store: the optimization run's state
  selectedNode,               \* store: the selected component, 0 = none
  propertiesExpanded,         \* store
  openResultsPanelRequest,    \* store: "closed", "evaluations" or "optimizations"
  panelTimers,                \* the pending 500 ms timers that open a results panel
  toasts,                     \* the notifications the last step raised
  sent,                       \* what the last step passed to sendMessage
  rebound,                    \* the attachment whose effect set onmessage in the last step, 0 = none
  last                        \* the operation the last step performed

vars == <<socketStatus, socks, socketInstance, pythonDisconnectedTimeout,
          livenessTimers, instances,
          lastIsAliveCallTimestamp, mounted, instanceId, connStatus,
          reconnectTimeoutRef, interval, lastRendered, execution, nodes, evaluation,
          optimization,
          selectedNode, propertiesExpanded, openResultsPanelRequest, panelTimers,
          toasts, sent, rebound, last>>

execVars == <<execution, nodes, evaluation, optimization, selectedNode,
              propertiesExpanded, openResultsPanelRequest, panelTimers>>

\* A step that is no message: the store's execution state stays, no notification
Quiet == toasts' = <<>> /\ UNCHANGED execVars

\* --------------------------------------------------------------- helpers
\* A WebSocket: its readyState, the attachment whose connect() made it (its onopen,
\* onclose and onerror are that attachment's closures) and, of the handleMessage
\* bound to onmessage, what it reads of the socketStatus it captured:
\* socketStatus === "connected"
NoSocket == [readyState |-> "NONE", owner |-> 0, onmessage |-> FALSE]
NoSend == [type |-> "none", by |-> 0, wire |-> FALSE]

Live(sk, s) == sk[s].readyState \in {"CONNECTING", "OPEN", "CLOSING"}

\* socketInstance?.readyState === WebSocket.OPEN
IsOpen(sk, si) == si # 0 /\ sk[si].readyState = "OPEN"

\* A closed WebSocket nothing refers to any more is garbage: its slot is free again.
Collect(sk, si) ==
  [s \in Sock |-> IF sk[s].readyState = "CLOSED" /\ s # si THEN NoSocket ELSE sk[s]]

Mounted == {a \in Att : mounted[a]}

\* An error message that is undefined
Undefined == "undefined"

\* An execution state of the workflow, of a component or of a run.  status "none"
\* is the undefined state (nothing received yet); finished_at is "none", "server" (a
\* time the runtime sent) or "client" (Date.now() in this client); run_id is 0 and
\* until_node_id is 0 where there is none.
State(status, error, fin, until, run) ==
  [status |-> status, error |-> error, finished_at |-> fin, until_node_id |-> until,
   run_id |-> run]

NoState == State("none", Undefined, "none", 0, 0)

\* The record of the last step: the operation, the attachment or component it is
\* about, the socketStatus and the liveness timer it started from (of a
\* disconnect(): "again" when the step before was the same call), the state a
\* server event carried
Op(op, a) ==
  [op |-> op, a |-> a, pre |-> socketStatus, tpre |-> pythonDisconnectedTimeout,
   arg |-> NoState]
Ev(op) == [op |-> op, a |-> 0, pre |-> "-", tpre |-> "-", arg |-> NoState]

\* ------------------------------------------------------------ the render
\* setInterval(isAlive, socketStatus === "connecting-python" ? 5_000 : 30_000)
Cadence(st) == IF st = "connecting-python" THEN FastCadence ELSE SlowCadence

\* sendMessage: transmits only on an open socket
sendMessageWheneverASocket(sk, si) == si # 0

sendMessage(sk, si) == IsOpen(sk, si)

\* pythonReconnect: arms the 10 s timer
pythonReconnect(t) == "pending"

\* isAlive, past its fence: the timer is armed when the captured status is connected
\* and the variable holds nothing
isAliveArmsWhateverTheTimer(st, t) == st = "connected"

isAliveArms(st, t) == st = "connected" /\ t = "null"

isAliveTimeout(st, t) == IF isAliveArms(st, t) THEN pythonReconnect(t) ELSE t

\* The fence of the effects and of isAlive
Fence(id, inst) == id = inst

\* The counter is unbounded and the code only ever compares it with a captured
\* instanceId, so the model keeps it in a window: past MaxInstances the counter and
\* every captured id slide down together, and an id that leaves the window (0) is one
\* the counter can no longer come back to.
Slide(n, inst) == IF inst > MaxInstances
                  THEN (IF n - (inst - MaxInstances) > 0 THEN n - (inst - MaxInstances) ELSE 0)
                  ELSE n

\* The attachments of S render in order (each one instances++, instanceId =
\* instances), then their effects run: the onmessage rebinding and the liveness
\* effect.  F: the attachments that mount in this commit (their effects run whatever
\* the dependencies); st, sk, si, ts: socketStatus, the sockets, socketInstance and
\* lastIsAliveCallTimestamp as the handler left them.
Commit(S, F, st, sk, si, ts) ==
  LET newId(a) == instances + Cardinality({b \in S : b <= a})
      inst2 == instances + Cardinality(S)
      runs(a) == a \in F \/ newId(a) # instanceId[a] \/ st # socketStatus
      passes(a) == a \in S /\ runs(a) /\ Fence(newId(a), inst2)
      P == {a \in S : passes(a)}
      first == P # {} /\ st = "connecting-python" /\ ts # "recent"
      p == CHOOSE a \in P : TRUE
  IN /\ instances' = Slide(inst2, inst2)
     /\ lastRendered' = IF S = {} THEN lastRendered
                        ELSE CHOOSE a \in S : \A b \in S : b <= a
     /\ instanceId' = [a \in Att |->
                         Slide(IF a \in S THEN newId(a) ELSE instanceId[a], inst2)]
     /\ interval' = [a \in Att |->
                       IF a \in S /\ runs(a)
                       THEN (IF passes(a) THEN Cadence(st) ELSE 0)
                       ELSE interval[a]]
     /\ socks' = Collect([s \in Sock |->
                            IF s = si /\ P # {}
                            THEN [sk[s] EXCEPT !.onmessage = (st = "connected")]
                            ELSE sk[s]], si)
     /\ rebound' = IF si # 0 /\ P # {} THEN p ELSE 0
     /\ lastIsAliveCallTimestamp' = IF first THEN "recent" ELSE ts
     /\ sent' = IF first
                THEN [type |-> "is_alive", by |-> p, wire |-> sendMessage(sk, si)]
                ELSE NoSend

\* setSocketStatus(st) by a handler, with the re-render it causes
SetStatus(st, sk, si, ts) ==
  /\ socketStatus' = st
  /\ socketInstance' = si
  /\ Commit(IF st # socketStatus THEN Mounted ELSE {}, {}, st, sk, si, ts)

\* ----------------------------------------------------------- attachments
SlotFree(a) ==
  /\ ~mounted[a]
  /\ reconnectTimeoutRef[a] = "null"
  /\ \A s \in Sock : Live(socks, s) => socks[s].owner # a

Mount(a) ==
  /\ SlotFree(a)
  /\ mounted' = [mounted EXCEPT ![a] = TRUE]
  /\ connStatus' = [connStatus EXCEPT ![a] = (socketStatus = "connected")]
  /\ Commit({a}, {a}, socketStatus, socks, socketInstance, lastIsAliveCallTimestamp)
  /\ last' = Ev("mount")
  /\ Quiet
  /\ UNCHANGED <<socketStatus, socketInstance, pythonDisconnectedTimeout, livenessTimers,
                 reconnectTimeoutRef>>

\* A re-render for a reason of its own (the parent re-rendered, local state changed)
Render(a) ==
  /\ mounted[a]
  /\ Commit({a}, {}, socketStatus, socks, socketInstance, lastIsAliveCallTimestamp)
  /\ last' = Ev("render")
  /\ Quiet
  /\ UNCHANGED <<socketStatus, socketInstance, pythonDisconnectedTimeout,
                 livenessTimers, mounted,
                 connStatus, reconnectTimeoutRef>>

\* The cleanups at unmount: clearInterval(interval), instances--
Unmount(a) ==
  /\ mounted[a]
  /\ mounted' = [mounted EXCEPT ![a] = FALSE]
  /\ interval' = [interval EXCEPT ![a] = 0]
  /\ instances' = instances - 1
  /\ instanceId' = [instanceId EXCEPT ![a] = 0]
  /\ lastRendered' = IF lastRendered = a THEN 0 ELSE lastRendered
  /\ sent' = NoSend
  /\ rebound' = 0
  /\ last' = Ev("unmount")
  /\ Quiet
  /\ UNCHANGED <<socketStatus, socks, socketInstance, pythonDisconnectedTimeout,
                 livenessTimers,
                 lastIsAliveCallTimestamp, connStatus, reconnectTimeoutRef>>

\* --------------------------------------------------------------- connect
\* if (reconnectTimeoutRef.current) return; reconnectTimeoutRef.current = setTimeout(..)
scheduleReconnectNever(ref, a) == ref

scheduleReconnect(ref, a) ==
  IF ref[a] # "null" THEN ref ELSE [ref EXCEPT ![a] = "pending"]

\* The slots a new WebSocket can take: the free ones, and the one of a closed socket
\* that socketInstance is about to stop referring to
FreeSock(K) ==
  {s \in K : socks[s].readyState = "NONE"
                 \/ (s = socketInstance /\ socks[s].readyState = "CLOSED")}

\* if (!project) return; if (socketInstance?.readyState === WebSocket.OPEN) return;
connectReturnsWhateverTheSocket(pr, sk, si) == ~pr

connectReturns(pr, sk, si) == ~pr \/ IsOpen(sk, si)

\* connect() of attachment a, with or without a project; the caller is a component
\* or a's reconnect timer
connect(a, pr, op, K) ==
  IF connectReturns(pr, socks, socketInstance)
  THEN /\ last' = [Ev(op) EXCEPT !.a = a, !.pre = socketStatus]
       /\ sent' = NoSend
       /\ rebound' = 0
       /\ UNCHANGED <<socketStatus, socks, socketInstance, instances,
                      lastIsAliveCallTimestamp, instanceId, interval, lastRendered>>
  ELSE /\ FreeSock(K) # {}
       /\ LET s == CHOOSE x \in FreeSock(K) : \A y \in FreeSock(K) : x <= y
          IN /\ SetStatus("connecting-socket",
                          [Collect(socks, 0) EXCEPT ![s] =
                             [readyState |-> "CONNECTING", owner |-> a,
                              onmessage |-> connStatus[a]]],
                          s, lastIsAliveCallTimestamp)
             /\ last' = [Ev(op) EXCEPT !.a = a, !.pre = socketStatus]

\* A component calls connect(); its project may not be loaded yet
Connect(a, K) ==
  /\ mounted[a]
  /\ \E pr \in BOOLEAN : connect(a, pr, "connect", K)
  /\ Quiet
  /\ UNCHANGED <<pythonDisconnectedTimeout, livenessTimers, mounted, connStatus,
                 reconnectTimeoutRef>>

\* The reconnect timer fires: reconnectTimeoutRef.current = null; connect().  The
\* timer was set by a socket that this connect created, so it has a project.
ReconnectFire(a, K) ==
  /\ reconnectTimeoutRef[a] = "pending"
  /\ reconnectTimeoutRef' = [reconnectTimeoutRef EXCEPT ![a] = "null"]
  /\ connect(a, TRUE, "reconnect", K)
  /\ Quiet
  /\ UNCHANGED <<pythonDisconnectedTimeout, livenessTimers, mounted, connStatus>>

\* ------------------------------------------------------ transport events
\* onopen: disconnected or connecting-socket becomes connecting-python
onopenStatusWhateverTheStatus(st) == "connecting-python"

onopenStatus(st) ==
  IF st = "disconnected" \/ st = "connecting-socket" THEN "connecting-python" ELSE st

onopenTimestamp(st, ts) ==
  IF st = "disconnected" \/ st = "connecting-socket" THEN "zero" ELSE ts

TransportOpen(s) ==
  /\ socks[s].readyState = "CONNECTING"
  /\ SetStatus(onopenStatus(socketStatus),
               [socks EXCEPT ![s].readyState = "OPEN"], socketInstance,
               onopenTimestamp(socketStatus, lastIsAliveCallTimestamp))
  /\ last' = [Ev("onopen") EXCEPT !.pre = socketStatus]
  /\ Quiet
  /\ UNCHANGED <<pythonDisconnectedTimeout, livenessTimers, mounted, connStatus,
                 reconnectTimeoutRef>>

\* onclose: nothing when the current socket is open
oncloseSkipsNever(sk, si) == FALSE

oncloseSkips(sk, si) == IsOpen(sk, si)

oncloseStatusRetrying(sk, si, st) == "connecting-socket"

oncloseStatus(sk, si, st) == IF oncloseSkips(sk, si) THEN st ELSE "disconnected"

oncloseRef(sk, si, ref, a) == IF oncloseSkips(sk, si) THEN ref ELSE scheduleReconnect(ref, a)

\* onerror: always
onerrorStatus(st) == "disconnected"

onerrorRef(ref, a) == scheduleReconnect(ref, a)

\* The close event of socket s alone (a clean close, or the end of close())
TransportClose(s) ==
  /\ socks[s].readyState \in {"OPEN", "CLOSING"}
  /\ LET sk == [socks EXCEPT ![s].readyState = "CLOSED"]
     IN /\ SetStatus(oncloseStatus(sk, socketInstance, socketStatus), sk,
                     socketInstance, lastIsAliveCallTimestamp)
        /\ reconnectTimeoutRef' =
             oncloseRef(sk, socketInstance, reconnectTimeoutRef, socks[s].owner)
  /\ last' = Ev("onclose")
  /\ Quiet
  /\ UNCHANGED <<pythonDisconnectedTimeout, livenessTimers, mounted, connStatus>>

\* The connection of socket s fails: the error event, then the close event
TransportError(s) ==
  /\ Live(socks, s)
  /\ LET sk == [socks EXCEPT ![s].readyState = "CLOSED"]
         st1 == onerrorStatus(socketStatus)
         ref1 == onerrorRef(reconnectTimeoutRef, socks[s].owner)
     IN /\ SetStatus(oncloseStatus(sk, socketInstance, st1), sk,
                     socketInstance, lastIsAliveCallTimestamp)
        /\ reconnectTimeoutRef' = oncloseRef(sk, socketInstance, ref1, socks[s].owner)
  /\ last' = Ev("onerror")
  /\ Quiet
  /\ UNCHANGED <<pythonDisconnectedTimeout, livenessTimers, mounted, connStatus>>

\* ------------------------------------------------------------ disconnect
disconnectSocks(sk, si) ==
  IF si # 0
  THEN [sk EXCEPT ![si].readyState =
          IF sk[si].readyState \in {"CONNECTING", "OPEN"} THEN "CLOSING" ELSE @]
  ELSE sk

disconnectRefFlips(ref, a) ==
  [ref EXCEPT ![a] = IF @ = "pending" THEN "null" ELSE "pending"]

disconnectRef(ref, a) == [ref EXCEPT ![a] = "null"]

Disconnect(a) ==
  /\ mounted[a]
  /\ SetStatus("disconnected", disconnectSocks(socks, socketInstance), 0,
               lastIsAliveCallTimestamp)
  /\ reconnectTimeoutRef' = disconnectRef(reconnectTimeoutRef, a)
  /\ last' = [Ev("disconnect") EXCEPT
                !.a = a,
                !.pre = IF last.op = "disconnect" /\ last.a = a THEN "again" ELSE "-"]
  /\ Quiet
  /\ UNCHANGED <<pythonDisconnectedTimeout, livenessTimers, mounted, connStatus>>

\* ------------------------------------------------------------------ send
\* A component calls sendMessage(event) of the handle it holds
Send(a) ==
  /\ mounted[a]
  /\ sent' = [type |-> "event", by |-> a, wire |-> sendMessage(socks, socketInstance)]
  /\ rebound' = 0
  /\ last' = [Ev("send") EXCEPT !.a = a]
  /\ Quiet
  /\ UNCHANGED <<socketStatus, socks, socketInstance, pythonDisconnectedTimeout,
                 livenessTimers, instances, lastIsAliveCallTimestamp, mounted,
                 instanceId, connStatus, reconnectTimeoutRef, interval, lastRendered>>

\* -------------------------------------------------------------- liveness
\* A tick of a's setInterval: isAlive
IntervalTick(a) ==
  /\ interval[a] # 0
  /\ IF Fence(instanceId[a], instances)
     THEN /\ lastIsAliveCallTimestamp' = "recent"
          /\ sent' = [type |-> "is_alive", by |-> a,
                      wire |-> sendMessage(socks, socketInstance)]
          /\ pythonDisconnectedTimeout' =
               isAliveTimeout(socketStatus, pythonDisconnectedTimeout)
          /\ livenessTimers' =
               IF isAliveArms(socketStatus, pythonDisconnectedTimeout)
               THEN livenessTimers + 1 ELSE livenessTimers
     ELSE /\ sent' = NoSend
          /\ UNCHANGED <<lastIsAliveCallTimestamp, pythonDisconnectedTimeout,
                         livenessTimers>>
  /\ rebound' = 0
  /\ last' = [Ev("isAlive") EXCEPT !.a = a, !.tpre = pythonDisconnectedTimeout]
  /\ Quiet
  /\ UNCHANGED <<socketStatus, socks, socketInstance, instances, mounted,
                 instanceId, connStatus, reconnectTimeoutRef, interval, lastRendered>>

\* The liveness timer fires: setSocketStatus("connecting-python"); the variable
\* keeps the id of the timer that fired
livenessStatusKept(st) == st

livenessStatus(st) == "connecting-python"

LivenessFireClosesTransport ==
  /\ livenessTimers > 0
  /\ livenessTimers' = livenessTimers - 1
  /\ pythonDisconnectedTimeout' =
       IF livenessTimers = 1 /\ pythonDisconnectedTimeout = "pending"
       THEN "fired" ELSE pythonDisconnectedTimeout
  /\ SetStatus(livenessStatus(socketStatus),
               [s \in Sock |-> IF s = socketInstance
                               THEN [socks[s] EXCEPT !.readyState = "CLOSING"]
                               ELSE socks[s]],
               socketInstance, lastIsAliveCallTimestamp)
  /\ last' = Op("livenessTimeout", 0)
  /\ Quiet
  /\ UNCHANGED <<mounted, connStatus, reconnectTimeoutRef>>

LivenessFire ==
  /\ livenessTimers > 0
  /\ livenessTimers' = livenessTimers - 1
  /\ pythonDisconnectedTimeout' =
       IF livenessTimers = 1 /\ pythonDisconnectedTimeout = "pending"
       THEN "fired" ELSE pythonDisconnectedTimeout
  /\ SetStatus(livenessStatus(socketStatus), socks, socketInstance,
               lastIsAliveCallTimestamp)
  /\ last' = Op("livenessTimeout", 0)
  /\ Quiet
  /\ UNCHANGED <<mounted, connStatus, reconnectTimeoutRef>>

\* More than 5 s pass since the last isAlive call
FiveSecondsPass ==
  /\ lastIsAliveCallTimestamp = "recent"
  /\ lastIsAliveCallTimestamp' = "old"
  /\ sent' = NoSend
  /\ rebound' = 0
  /\ last' = Ev("time")
  /\ Quiet
  /\ UNCHANGED <<socketStatus, socks, socketInstance, pythonDisconnectedTimeout,
                 livenessTimers,
                 instances, mounted, instanceId, connStatus,
                 reconnectTimeoutRef, interval, lastRendered>>

\* ---------------------------------------------------------------- strings
\* A string is the sequence of its characters.  The store and the toasts hold an
\* error message by name: Undefined, or one of the messages of MsgText.
MsgText ==
  [unreachable |-> <<"L", "L", "M", " ", "R", "u", "n", "t", "i", "m", "e", " ", "i", "s", " ", "U", "n", "r", "e", "a", "c", "h", "a", "b", "l", "e">>,
   stopped |-> <<"S", "t", "o", "p", "p", "e", "d", " ", "b", "y", " ", "u", "s", "e", "r">>,
   interrupted |-> <<"R", "u", "n", " ", "I", "N", "T", "E", "R", "R", "U", "P", "T", "E", "D">>,
   failed |-> <<"B", "o", "o", "m">>]

MsgUnreachable == "unreachable"
MsgStopped == "stopped"
MsgInterrupted == "interrupted"
MsgFailed == "failed"

LowerOf ==
  [c \in {"A", "B", "C", "D", "E", "F", "G", "H", "I", "J", "K", "L", "M", "N", "O",
          "P", "Q", "R", "S", "T", "U", "V", "W", "X", "Y", "Z"} |->
     CASE c = "A" -> "a" [] c = "B" -> "b" [] c = "C" -> "c" [] c = "D" -> "d"
       [] c = "E" -> "e" [] c = "F" -> "f" [] c = "G" -> "g" [] c = "H" -> "h"
       [] c = "I" -> "i" [] c = "J" -> "j" [] c = "K" -> "k" [] c = "L" -> "l"
       [] c = "M" -> "m" [] c = "N" -> "n" [] c = "O" -> "o" [] c = "P" -> "p"
       [] c = "Q" -> "q" [] c = "R" -> "r" [] c = "S" -> "s" [] c = "T" -> "t"
       [] c = "U" -> "u" [] c = "V" -> "v" [] c = "W" -> "w" [] c = "X" -> "x"
       [] c = "Y" -> "y" [] c = "Z" -> "z"]

toLowerCaseKeeps(s) == s

toLowerCase(s) ==
  [i \in 1..Len(s) |-> IF s[i] \in DOMAIN LowerOf THEN LowerOf[s[i]] ELSE s[i]]

includes(s, n) ==
  \E i \in 1..(Len(s) - Len(n) + 1) : SubSeq(s, i, i + Len(n) - 1) = n

\* message?.slice(0, 140): the message and how much of it is kept
slice(m) ==
  IF m # Undefined
  THEN [of |-> m,
        len |-> IF Len(MsgText[m]) < SliceLen THEN Len(MsgText[m]) ELSE SliceLen]
  ELSE [of |-> m, len |-> 0]

\* !!message?.toLowerCase().includes(n)
includesCI(m, n) == m # Undefined /\ includes(toLowerCase(MsgText[m]), n)

RuntimeIsUnreachable == <<"r", "u", "n", "t", "i", "m", "e", " ", "i", "s", " ", "u", "n", "r", "e", "a", "c", "h", "a", "b", "l", "e">>
Stopped == <<"s", "t", "o", "p", "p", "e", "d">>
Interrupted == <<"i", "n", "t", "e", "r", "r", "u", "p", "t", "e", "d">>

\* ------------------------------------------------------- execution states
\* { status: "error", error: message, timestamps: { finished_at: Date.now() } }
ErrorState(m) == State("error", m, "client", 0, 0)

\* The store's setters: each performs the write
setWorkflowExecutionState(wf, st) == st

setComponentExecutionState(nd, c, st) == [nd EXCEPT ![c] = st]

setEvaluationState(cur, st) == st

setOptimizationState(cur, st) == st

\* -------------------------------------------------------------- messages
\* checkIfUnreachableErrorMessage, of a handleMessage that captured flag =
\* (socketStatus === "connected")
checkIfUnreachableErrorMessage(flag, st, m) ==
  IF flag /\ includesCI(m, RuntimeIsUnreachable) THEN "connecting-python" ELSE st

\* stopWorkflowIfRunning: the workflow, then every running component
stopWorkflowKeeps(wf, m) == wf

stopWorkflow(wf, m) == setWorkflowExecutionState(wf, ErrorState(m))

stopNodesNone(nd, m) == nd

stopNodesEvery(nd, m) == [c \in Comp |-> ErrorState(m)]

stopNodes(nd, m) ==
  [c \in Comp |-> IF nd[c].status = "running" THEN ErrorState(m) ELSE nd[c]]

\* toaster.create(t): one more notification
toasterCreateNothing(t) == <<>>

toasterCreate(t) == <<t>>

\* alertOnError: one toast, "Stopped" or "Error"
alertOnError(m) ==
  IF includesCI(m, Stopped) \/ includesCI(m, Interrupted)
  THEN [title |-> "Stopped", type |-> "info", description |-> slice(m),
        duration |-> InfoDuration]
  ELSE [title |-> "Error", type |-> "error", description |-> slice(m),
        duration |-> ErrorDuration]

\* useAlertOnComponent: the component-scoped alert
alertOnComponent(c, st) ==
  [title |-> "Component", type |-> "error", description |-> slice(st.error),
   duration |-> ErrorDuration]

UnknownToast ==
  [title |-> "Unknown message type on client", type |-> "warning",
   description |-> slice(Undefined), duration |-> ErrorDuration]

\* The selection of the component a component_state_change is about
selects(po, c, st, cur, wf) ==
  /\ ~po
  /\ st.status # "running"
  /\ cur.status # "success"
  /\ \/ (wf.status = "running" /\ wf.until_node_id = c)
     \/ wf.status # "running"

\* Does an errored run ask for its results panel
opensPanelAlways(cur) == TRUE

opensPanel(cur) == cur.status # "waiting"

\* clearTimeout(pythonDisconnectedTimeout): cancels the timer if it is pending
clearTimeout(t, n) == IF t = "pending" THEN n - 1 ELSE n

\* is_alive_response
aliveTimeoutKept(t) == t

aliveTimeout(t) == "null"

aliveStatus(st) == "connected"

\* default: a message of a type the switch does not know
unknownMessageAsError(r) ==
  [r EXCEPT !.wf = stopWorkflow(r.wf, Undefined), !.nd = stopNodes(r.nd, Undefined),
            !.toasts = toasterCreate(alertOnError(Undefined))]

unknownMessage(r) == [r EXCEPT !.toasts = toasterCreate(UnknownToast)]

\* A server event: its type, the component it is about (0 = none), its state or
\* message
Event(type, c, st) == [type |-> type, component_id |-> c, state |-> st]

\* handleMessage(event) of a handler that captured flag and playgroundOpen = po:
\* what it leaves in the store and what it raises
handleMessage(flag, po, ev) ==
  LET m == ev.state.error
      same == [st |-> socketStatus, t |-> pythonDisconnectedTimeout,
               n |-> livenessTimers, wf |-> execution,
               nd |-> nodes, evl |-> evaluation, opt |-> optimization,
               sel |-> selectedNode, exp |-> propertiesExpanded, panel |-> panelTimers,
               toasts |-> <<>>]
  IN CASE ev.type = "is_alive_response" ->
            [same EXCEPT !.t = aliveTimeout(pythonDisconnectedTimeout),
                         !.n = clearTimeout(pythonDisconnectedTimeout, livenessTimers),
                         !.st = aliveStatus(socketStatus)]
       [] ev.type = "component_state_change" ->
            LET c == ev.component_id
                err == ev.state.status = "error"
                pick == selects(po, c, ev.state, nodes[c], execution)
            IN [same EXCEPT
                  !.nd = setComponentExecutionState(nodes, c, ev.state),
                  !.st = IF err THEN checkIfUnreachableErrorMessage(flag, socketStatus, m)
                         ELSE socketStatus,
                  !.toasts = IF err THEN toasterCreate(alertOnComponent(c, ev.state)) ELSE <<>>,
                  !.sel = IF pick THEN c ELSE selectedNode,
                  !.exp = IF pick THEN TRUE ELSE propertiesExpanded]
       [] ev.type = "execution_state_change" ->
            IF ev.state.status = "error"
            THEN [same EXCEPT
                    !.wf = stopWorkflow(setWorkflowExecutionState(execution, ev.state), m),
                    !.nd = stopNodes(nodes, m),
                    !.toasts = toasterCreate(alertOnError(m))]
            ELSE [same EXCEPT !.wf = setWorkflowExecutionState(execution, ev.state)]
       [] ev.type = "evaluation_state_change" ->
            [same EXCEPT
               !.evl = setEvaluationState(evaluation, ev.state),
               !.toasts = IF ev.state.status = "error" THEN toasterCreate(alertOnError(m)) ELSE <<>>,
               !.panel = IF ev.state.status = "error" /\ opensPanel(evaluation)
                         THEN panelTimers \cup {"evaluations"} ELSE panelTimers]
       [] ev.type = "optimization_state_change" ->
            [same EXCEPT
               !.opt = setOptimizationState(optimization, ev.state),
               !.toasts = IF ev.state.status = "error" THEN toasterCreate(alertOnError(m)) ELSE <<>>,
               !.panel = IF ev.state.status = "error" /\ opensPanel(optimization)
                         THEN panelTimers \cup {"optimizations"} ELSE panelTimers]
       [] ev.type = "error" ->
            [same EXCEPT
               !.st = checkIfUnreachableErrorMessage(flag, socketStatus, m),
               !.wf = stopWorkflow(execution, m),
               !.nd = stopNodes(nodes, m),
               !.toasts = toasterCreate(alertOnError(m))]
       [] ev.type \in {"debug", "done"} -> same
       [] OTHER -> unknownMessage(same)

\* The open socket s receives ev: its onmessage runs
Message(s, E) ==
  /\ socks[s].readyState = "OPEN"
  /\ \E ev \in E, po \in BOOLEAN :
       /\ ev.type # "component_state_change" => ~po
       /\ \E r \in {handleMessage(socks[s].onmessage, po, ev)} :
             /\ pythonDisconnectedTimeout' = r.t
             /\ livenessTimers' = r.n
             /\ execution' = r.wf
             /\ nodes' = r.nd
             /\ evaluation' = r.evl
             /\ optimization' = r.opt
             /\ selectedNode' = r.sel
             /\ propertiesExpanded' = r.exp
             /\ panelTimers' = r.panel
             /\ toasts' = r.toasts
             /\ SetStatus(r.st, socks, socketInstance, lastIsAliveCallTimestamp)
             /\ last' = [Op(ev.type, ev.component_id) EXCEPT !.arg = ev.state]
  /\ UNCHANGED <<mounted, connStatus, reconnectTimeoutRef, openResultsPanelRequest>>

\* A 500 ms timer of an errored run fires: setOpenResultsPanelRequest(kind)
PanelTimerFire(kind) ==
  /\ kind \in panelTimers
  /\ panelTimers' = panelTimers \ {kind}
  /\ openResultsPanelRequest' = kind
  /\ toasts' = <<>>
  /\ sent' = NoSend
  /\ rebound' = 0
  /\ last' = Ev("panel")
  /\ UNCHANGED <<socketStatus, socks, socketInstance, pythonDisconnectedTimeout,
                 livenessTimers,
                 instances, lastIsAliveCallTimestamp, mounted, instanceId, connStatus,
                 reconnectTimeoutRef, interval, lastRendered, execution, nodes,
                 evaluation,                 optimization, selectedNode, propertiesExpanded>>

\* ----------------------------------------------------------------- model
Init ==
  /\ socketStatus = "disconnected"
  /\ socks = [s \in Sock |-> NoSocket]
  /\ socketInstance = 0
  /\ pythonDisconnectedTimeout = "null"
  /\ livenessTimers = 0
  /\ instances = 0
  /\ lastIsAliveCallTimestamp = "zero"
  /\ mounted = [a \in Att |-> FALSE]
  /\ instanceId = [a \in Att |-> 0]
  /\ connStatus = [a \in Att |-> FALSE]
  /\ reconnectTimeoutRef = [a \in Att |-> "null"]
  /\ interval = [a \in Att |-> 0]
  /\ lastRendered = 0
  /\ execution = NoState
  /\ nodes = [c \in Comp |-> NoState]
  /\ evaluation = NoState
  /\ optimization = NoState
  /\ selectedNode = 0
  /\ propertiesExpanded = FALSE
  /\ openResultsPanelRequest = "closed"
  /\ panelTimers = {}
  /\ toasts = <<>>
  /\ sent = NoSend
  /\ rebound = 0
  /\ last = Ev("init")

\* The server events of the model
IsAliveResponse == Event("is_alive_response", 0, NoState)

\* The steps of the program with the attachments of A, the WebSockets of K and a
\* runtime that sends the events of E
NextOf(A, K, E) ==
  \/ \E a \in A : Mount(a)
  \/ \E a \in A : Render(a)
  \/ \E a \in A : Unmount(a)
  \/ \E a \in A : Connect(a, K)
  \/ \E a \in A : ReconnectFire(a, K)
  \/ \E a \in A : Disconnect(a)
  \/ \E a \in A : IntervalTick(a)
  \/ \E s \in K : TransportOpen(s)
  \/ \E s \in K : TransportClose(s)
  \/ \E s \in K : TransportError(s)
  \/ \E s \in K : Message(s, E)
  \/ LivenessFire
  \/ FiveSecondsPass

\* The states the runtime reports
Running(until) == State("running", Undefined, "none", until, 0)
Success == State("success", Undefined, "server", 0, 0)
Failed(m) == State("error", m, "server", 0, 0)
RunState(status, m, run) ==
  State(status, m, IF status \in {"success", "error"} THEN "server" ELSE "none", 0, run)

FlowMessages == {MsgFailed, MsgUnreachable}

FlowEvents ==
  {IsAliveResponse, Event("debug", 0, NoState), Event("done", 0, NoState),
   Event("unknown", 0, NoState)}
  \cup {Event("component_state_change", c, st) :
          c \in Comp, st \in {Running(0), Success} \cup {Failed(m) : m \in FlowMessages}}
  \cup {Event("execution_state_change", 0, st) :
          st \in {Running(u) : u \in {0} \cup Comp} \cup {Success}
                 \cup {Failed(m) : m \in FlowMessages}}
  \cup {Event("error", 0, Failed(m)) : m \in FlowMessages}

RunEvents ==
  {IsAliveResponse}
  \cup {Event(type, 0, RunState(status, Undefined, run)) :
          type \in {"evaluation_state_change", "optimization_state_change"},
          status \in {"waiting", "running", "success"}, run \in RunId}
  \cup {Event(type, 0, RunState("error", MsgFailed, run)) :
          type \in {"evaluation_state_change", "optimization_state_change"},
          run \in RunId}

\* Several attachments share one WebSocket at a time
Next == NextOf(Att, {1}, {IsAliveResponse})
Spec == Init /\ [][Next]_vars

\* The same, where a pending reconnect timer fires in the end (setTimeout)
SpecTimers == Spec /\ \A a \in Att : WF_vars(ReconnectFire(a, {1}))

\* One attachment, several WebSockets
NextSock == NextOf({1}, Sock, {IsAliveResponse})
SpecSock == Init /\ [][NextSock]_vars

\* A session that stays up (one attachment, no unmount, no transport loss, no
\* timer) while the runtime reports on the workflow and its components
NextFlow ==
  \/ \E a \in {1} : Mount(a)
  \/ \E a \in {1} : Connect(a, Sock)
  \/ \E s \in Sock : TransportOpen(s)
  \/ \E s \in Sock : Message(s, FlowEvents)
SpecFlow == Init /\ [][NextFlow]_vars

\* A session that stays up while the runtime reports on the runs
NextRuns ==
  \/ \E a \in {1} : Mount(a)
  \/ \E a \in {1} : Connect(a, Sock)
  \/ \E s \in Sock : TransportOpen(s)
  \/ \E s \in Sock : Message(s, RunEvents)
  \/ \E kind \in {"evaluations", "optimizations"} : PanelTimerFire(kind)
SpecRuns == Init /\ [][NextRuns]_vars

\* One attachment that mounts and unmounts, one WebSocket at a time, and a runtime
\* that runs the workflow and reports itself unreachable
SessionEvents ==
  {IsAliveResponse,
   Event("execution_state_change", 0, Running(0)),
   Event("component_state_change", 1, Running(0)),
   Event("component_state_change", 1, Failed(MsgUnreachable)),
   Event("error", 0, Failed(MsgUnreachable))}

NextSession == NextOf({1}, {1}, SessionEvents) \/ Send(1)
SpecSession == Init /\ [][NextSession]_vars

\* The same, where every pending timer of the client fires in the end
SpecSessionTimers ==
  /\ SpecSession
  /\ WF_vars(ReconnectFire(1, {1}))
  /\ WF_vars(LivenessFire)
  /\ WF_vars(IntervalTick(1))

\* ----------------------------------------------------------------- claims
Pending == {a \in Att : reconnectTimeoutRef[a] = "pending"}

\* Attachment a is superseded: another mounted attachment called the hook after it
Superseded(a) == mounted[a] /\ lastRendered # 0 /\ lastRendered # a

\* C1: connect() while the socket is open and the status is connected opens no
\* socket, leaves the status connected and leaves the execution states alone.
C1_ConnectWhileConnected ==
  [][(last'.op = "connect" /\ IsOpen(socks, socketInstance)
        /\ socketStatus = "connected")
     => /\ socks' = socks
        /\ socketInstance' = socketInstance
        /\ socketStatus' = "connected"
        /\ UNCHANGED <<execution, nodes, evaluation, optimization>>]_vars

C1_Witness ==
  /\ last.op = "connect"
  /\ last.pre = "connected"
  /\ IsOpen(socks, socketInstance)
  /\ execution.status = "running"
  /\ \E c \in Comp : nodes[c].status = "running"

\* C2: an is_alive_response handled in connecting-python leaves the status
\* connected and no liveness timer pending.
C2_AliveRoundTrip ==
  (last.op = "is_alive_response" /\ last.pre = "connecting-python")
  => (socketStatus = "connected" /\ pythonDisconnectedTimeout = "null")

C2_Witness ==
  /\ last.op = "is_alive_response"
  /\ last.pre = "connecting-python"
  /\ last.tpre = "pending"

\* C3: when the liveness timer armed by a probe fires in connected, the status is
\* connecting-python and every probe interval runs at the 5 s cadence, the one of
\* the attachment that holds the fence included.
C3_LivenessTimeout ==
  (last.op = "livenessTimeout" /\ last.pre = "connected")
  => /\ socketStatus = "connecting-python"
     /\ \A a \in Att : interval[a] # 0 => interval[a] = FastCadence
     /\ Mounted # {} => \E a \in Mounted : interval[a] = FastCadence

C3_Witness ==
  /\ last.op = "livenessTimeout"
  /\ last.pre = "connected"
  /\ \E a \in Mounted : interval[a] = FastCadence

\* C4: an execution_state_change with status error and message m leaves the
\* workflow in error and every component that was running in error with m; none
\* stays running.
C4_CascadeStop ==
  [][(last'.op = "execution_state_change" /\ last'.arg.status = "error")
     => /\ execution'.status = "error"
        /\ \A c \in Comp :
             /\ nodes[c].status = "running"
                  => (nodes'[c].status = "error" /\ nodes'[c].error = last'.arg.error)
             /\ nodes'[c].status # "running"]_vars

C4_Witness ==
  /\ last.op = "execution_state_change"
  /\ last.arg.status = "error"
  /\ \E c \in Comp : nodes[c] = ErrorState(last.arg.error)
  /\ \E c \in Comp : nodes[c].status = "success"

\* C5: an evaluation_state_change or optimization_state_change that carries the
\* run_id of a run older than the stored one does not overwrite the stored state.
C5_StaleRunDropped ==
  [][/\ (last'.op = "evaluation_state_change" /\ last'.arg.run_id < evaluation.run_id)
          => evaluation' = evaluation
     /\ (last'.op = "optimization_state_change"
           /\ last'.arg.run_id < optimization.run_id)
          => optimization' = optimization]_vars

\* C6: at most one reconnect timer is outstanding.
C6_OneReconnectTimer == Cardinality(Pending) <= 1

\* C7: the callbacks of a superseded attachment do nothing: its isAlive sends no
\* is_alive and arms no liveness timer, and its effect does not set onmessage.
C7_FencedAttachment ==
  /\ (last.op = "isAlive" /\ Superseded(last.a))
       => /\ sent = NoSend
          /\ ~(last.tpre = "null" /\ pythonDisconnectedTimeout = "pending")
  /\ rebound # 0 => ~Superseded(rebound)

\* C8: at most one WebSocket is connecting or open.
C8_OneTransport ==
  Cardinality({s \in Sock : socks[s].readyState \in {"CONNECTING", "OPEN"}}) <= 1

\* C9: from disconnect() until the next connect(), no reconnect timer is pending.
C9_NoReconnectAfterDisconnect == socketInstance = 0 => Pending = {}

\* C10: when disconnect() returns, the status is disconnected, socketInstance is
\* null and no reconnect timer is pending, whichever attachment set it.
C10_AfterDisconnect ==
  last.op = "disconnect"
  => (socketStatus = "disconnected" /\ socketInstance = 0 /\ Pending = {})

\* C11: after a socket closes or errors and leaves no open socket, a connect()
\* follows (the reconnect timer's, or a caller's) unless disconnect() is called;
\* this from every reachable state, so after any number of failed attempts.
TransportLost ==
  last.op \in {"onclose", "onerror"} /\ ~IsOpen(socks, socketInstance)

C11_RetryFollows ==
  TransportLost ~> (last.op \in {"reconnect", "connect", "disconnect"})

C11_Witness ==
  /\ last.op = "reconnect"
  /\ socketStatus = "connecting-socket"
  /\ socketInstance # 0
  /\ socks[socketInstance].readyState = "CONNECTING"
  /\ Pending = {}

\* C12: an is_alive_response the current socket delivers while the status is
\* disconnected leaves it disconnected.
C12_AliveIgnoredWhenDisconnected ==
  [][(last'.op = "is_alive_response" /\ socketStatus = "disconnected"
        /\ IsOpen(socks, socketInstance))
     => socketStatus' = "disconnected"]_vars

\* C13: when disconnect() returns, no liveness timer is pending.
C13_NoLivenessTimerAfterDisconnect ==
  last.op = "disconnect" => livenessTimers = 0

\* C14: at most one liveness timer is pending.
C14_OneLivenessTimer == livenessTimers <= 1

C14_Witness ==
  /\ last.op = "isAlive"
  /\ last.tpre = "pending"
  /\ socketStatus = "connected"
  /\ sent.type = "is_alive"
  /\ livenessTimers = 1

\* C15: an execution_state_change with status error whose message holds the
\* runtime-unreachable phrase, handled in connected, leaves the status
\* connecting-python (and the workflow in error).
C15_UnreachableExecutionError ==
  [][(last'.op = "execution_state_change" /\ last'.arg.status = "error"
        /\ includesCI(last'.arg.error, RuntimeIsUnreachable)
        /\ socketStatus = "connected")
     => (socketStatus' = "connecting-python" /\ execution'.status = "error")]_vars

\* C16: an error event, or a component_state_change with status error, whose
\* message holds the runtime-unreachable phrase in any case, handled in connected,
\* leaves the status connecting-python.
C16_UnreachableError ==
  [][(last'.op \in {"error", "component_state_change"}
        /\ last'.arg.status = "error"
        /\ includesCI(last'.arg.error, RuntimeIsUnreachable)
        /\ socketStatus = "connected")
     => socketStatus' = "connecting-python"]_vars

\* C17: after a server event that reports an error of the workflow, of a component
\* or of a run, neither the workflow nor any component is running.
C17_NothingRunningAfterError ==
  [][(last'.op \in {"execution_state_change", "component_state_change",
                    "evaluation_state_change", "optimization_state_change"}
        /\ last'.arg.status = "error")
     => (execution'.status # "running"
         /\ \A c \in Comp : nodes'[c].status # "running")]_vars

\* C18: when the socket is lost or the liveness timer fires while the workflow or a
\* component is running, the client takes it out of running in the end, unless a
\* message about the execution arrives first.
SomethingRunning ==
  execution.status = "running" \/ \E c \in Comp : nodes[c].status = "running"

C18_NotStuckRunning ==
  (SomethingRunning /\ last.op \in {"onclose", "onerror", "livenessTimeout"})
  ~> (~SomethingRunning
      \/ last.op \in {"execution_state_change", "component_state_change", "error"})

\* C19: sendMessage(event) transmits the event exactly when the current socket is
\* open at the call; a call that does not transmit raises no notification and
\* changes nothing the client keeps, so nothing is left to transmit later.
C19_SendOnlyWhenOpen ==
  [][last'.op = "send"
     => /\ sent'.type = "event"
        /\ sent'.wire <=> (socketInstance # 0
                             /\ socks[socketInstance].readyState = "OPEN")
        /\ toasts' = <<>>
        /\ UNCHANGED <<socketStatus, socks, socketInstance, pythonDisconnectedTimeout,
                       livenessTimers, reconnectTimeoutRef, interval, execVars>>]_vars

C19_Witness ==
  /\ last.op = "send"
  /\ ~sent.wire
  /\ socketInstance # 0
  /\ socks[socketInstance].readyState = "CONNECTING"
  /\ reconnectTimeoutRef[1] = "pending"

\* C20: at most one mounted attachment has a probe interval whose isAlive passes
\* the fence.
C20_OneProbeCycle ==
  Cardinality({a \in Mounted :
                 interval[a] # 0 /\ Fence(instanceId[a], instances)}) <= 1

\* C21: the counter never decreases, so the instanceId a hook call captures is
\* greater than the one every other mounted attachment holds.
C21_MonotonicCounter ==
  [][/\ last'.op = "unmount" => instances' >= instances
     /\ last'.op \in {"mount", "render"}
          => \A b \in Mounted' \ {lastRendered'} :
               instanceId'[b] < instanceId'[lastRendered']]_vars

\* C22: an execution_state_change with status error, or an error event, raises
\* exactly one notification, whatever its message.
C22_OneNotification ==
  [][(\/ last'.op = "execution_state_change" /\ last'.arg.status = "error"
      \/ last'.op = "error")
     => Len(toasts') = 1]_vars

C22_Witness ==
  /\ last.op = "error"
  /\ last.pre = "connected"
  /\ last.arg.error = MsgUnreachable
  /\ socketStatus = "connecting-python"
  /\ toasts = <<alertOnError(MsgUnreachable)>>

\* C23: a message of an unknown type leaves the status and every execution state
\* as they were, and every open socket open with its handler, so the next message
\* is handled as usual.
C23_UnknownMessage ==
  [][last'.op = "unknown"
     => /\ UNCHANGED <<socketStatus, socketInstance, execVars,
                       pythonDisconnectedTimeout, livenessTimers>>
        /\ \A s \in Sock : socks[s].readyState = "OPEN" => socks'[s] = socks[s]]_vars

C23_Witness ==
  /\ last.op = "unknown"
  /\ toasts = <<UnknownToast>>
  /\ socketStatus = "connected"
  /\ execution.status = "running"
  /\ \E c \in Comp : nodes[c].status = "running"

C25_OpenTransition ==
  [][last'.op = "onopen"
     => socketStatus' = IF socketStatus \in {"disconnected", "connecting-socket"}
                        THEN "connecting-python" ELSE socketStatus]_vars

C25_Witness ==
  /\ last.op = "onopen"
  /\ last.pre = "connected"
  /\ socketStatus = "connected"

\* C26: a liveness timer that fires while the status is disconnected or
\* connecting-socket leaves the status as it was.
C26_LivenessOnlyFromConnected ==
  (last.op = "livenessTimeout" /\ last.pre \in {"disconnected", "connecting-socket"})
  => socketStatus = last.pre

\* C27: while the status is connecting-python or connected, socketInstance is an
\* open socket.
C27_StatusImpliesOpen ==
  socketStatus \in {"connecting-python", "connected"}
  => IsOpen(socks, socketInstance)

\* C28: for every socket that can close, the close event and the error event
\* would leave the same status and the same reconnect timers.
C28_CloseLikeError ==
  \A s \in Sock :
    Live(socks, s)
    => LET sk == [socks EXCEPT ![s].readyState = "CLOSED"]
       IN /\ oncloseStatus(sk, socketInstance, socketStatus)
               = onerrorStatus(socketStatus)
          /\ oncloseRef(sk, socketInstance, reconnectTimeoutRef, socks[s].owner)
               = onerrorRef(reconnectTimeoutRef, socks[s].owner)

\* C29: the close event of a socket that is not the current one, while the current
\* one is open, leaves the status and the reconnect timers as they were.
C29_StaleCloseIgnored ==
  [][(last'.op = "onclose" /\ IsOpen(socks', socketInstance))
     => UNCHANGED <<socketStatus, socketInstance, reconnectTimeoutRef>>]_vars

C29_Witness ==
  /\ last.op = "onclose"
  /\ IsOpen(socks, socketInstance)
  /\ socketStatus = "connected"
  /\ Pending = {}

\* C30: when a socket opens in disconnected or connecting-socket and a component
\* is mounted, is_alive goes out on the socket in the same step.
C30_ImmediateProbe ==
  [][(last'.op = "onopen" /\ socketStatus \in {"disconnected", "connecting-socket"}
        /\ Mounted # {})
     => (sent'.type = "is_alive" /\ sent'.wire)]_vars

\* ------------------------------------------------------------ alerts
\* One attachment and one socket; the server reports errors with every kind of
\* message, the absent one included
AlertMessages == {Undefined, MsgStopped, MsgInterrupted, MsgFailed, MsgUnreachable}

AlertEvents ==
  {IsAliveResponse, Event("execution_state_change", 0, Running(0)),
   Event("component_state_change", 1, Running(0))}
  \cup {Event("error", 0, Failed(m)) : m \in AlertMessages}
  \cup {Event("execution_state_change", 0, Failed(m)) : m \in AlertMessages}
  \cup {Event("evaluation_state_change", 0, RunState("error", m, 1)) : m \in AlertMessages}

NextAlerts ==
  \/ \E a \in {1} : Mount(a)
  \/ \E a \in {1} : Connect(a, {1})
  \/ \E s \in {1} : TransportOpen(s)
  \/ \E s \in {1} : Message(s, AlertEvents)
SpecAlerts == Init /\ [][NextAlerts]_vars

\* The text of m has the word w in it, letter by letter, whatever the case
Mentions(m, w) ==
  /\ m # Undefined
  /\ \E i \in 1..(Len(MsgText[m]) - Len(w) + 1) :
       \A j \in 1..Len(w) :
         \/ MsgText[m][i + j - 1] = w[j]
         \/ /\ MsgText[m][i + j - 1] \in DOMAIN LowerOf
            /\ LowerOf[MsgText[m][i + j - 1]] = w[j]

\* C31: a probe made in connected or in connecting-python leaves a liveness timer
\* pending.
C31_ProbeArmsTimer ==
  (sent.type = "is_alive" /\ socketStatus \in {"connected", "connecting-python"})
  => livenessTimers >= 1

\* C32: isAlive calls sendMessage only while the status is connected or
\* connecting-python.
C32_ProbeOnlyWhenUp ==
  sent.type = "is_alive" => socketStatus \in {"connected", "connecting-python"}

\* C33: the liveness timeout keeps the transport (an open socket stays open, the
\* current socket stays the current one), the reconnect timers, the toasts (none)
\* and the workflow, component, evaluation and optimization states.
C33_LivenessTimeoutFrame ==
  [][last'.op = "livenessTimeout"
     => /\ socketInstance' = socketInstance
        /\ \A s \in Sock : socks[s].readyState = "OPEN" => socks'[s].readyState = "OPEN"
        /\ reconnectTimeoutRef' = reconnectTimeoutRef
        /\ toasts' = <<>>
        /\ UNCHANGED <<execution, nodes, evaluation, optimization>>]_vars

C33_Witness ==
  /\ last.op = "livenessTimeout"
  /\ last.pre = "connected"
  /\ socketStatus = "connecting-python"
  /\ IsOpen(socks, socketInstance)
  /\ Pending = {}
  /\ SomethingRunning

\* C34: a close or an error of a socket changes the status (to disconnected, or
\* not at all for a skipped close) and the reconnect timer; it raises no toast and
\* keeps the liveness timer and the workflow, component, evaluation and
\* optimization states.
C34_TransportLossFrame ==
  [][last'.op \in {"onclose", "onerror"}
     => /\ socketStatus' \in {socketStatus, "disconnected"}
        /\ last'.op = "onerror" => socketStatus' = "disconnected"
        /\ toasts' = <<>>
        /\ UNCHANGED <<pythonDisconnectedTimeout, livenessTimers>>
        /\ UNCHANGED <<execution, nodes, evaluation, optimization>>]_vars

C34_Witness ==
  /\ last.op = "onerror"
  /\ socketStatus = "disconnected"
  /\ Pending # {}
  /\ execution.status = "running"
  /\ \E c \in Comp : nodes[c].status = "running"

\* C35: from any state, an error message with text m and an
\* execution_state_change with status error and error m leave the same workflow
\* state and the same component states: the workflow in error with m, and every
\* component that was running in error with m.
C35_ErrorLikeExecutionError ==
  \A m \in FlowMessages, flag \in BOOLEAN :
    LET viaError == handleMessage(flag, FALSE, Event("error", 0, Failed(m)))
        viaState == handleMessage(flag, FALSE,
                                  Event("execution_state_change", 0, Failed(m)))
    IN /\ viaError.wf = viaState.wf
       /\ viaError.nd = viaState.nd
       /\ viaError.wf.status = "error"
       /\ viaError.wf.error = m
       /\ \A c \in Comp :
            nodes[c].status = "running"
              => (viaError.nd[c].status = "error" /\ viaError.nd[c].error = m)

C35_Witness ==
  /\ last.op = "error"
  /\ last.arg.error = MsgFailed
  /\ execution = ErrorState(MsgFailed)
  /\ \E c \in Comp : nodes[c] = ErrorState(MsgFailed)
  /\ \E c \in Comp : nodes[c].status = "success"

\* C36: when the workflow errors (an execution_state_change with status error,
\* or an error message), a component whose status was not running keeps its
\* whole execution state.
C36_CascadeStopFrame ==
  [][((last'.op = "execution_state_change" /\ last'.arg.status = "error")
        \/ last'.op = "error")
     => \A c \in Comp : nodes[c].status # "running" => nodes'[c] = nodes[c]]_vars

C36_Witness ==
  /\ last.op = "execution_state_change"
  /\ last.arg.status = "error"
  /\ last.arg.error = MsgFailed
  /\ \E c \in Comp : nodes[c].status = "error" /\ nodes[c].error = MsgUnreachable
  /\ \E c \in Comp : nodes[c] = ErrorState(MsgFailed)

\* C37: alertOnError raises exactly one toast: the info toast "Stopped" when the
\* message has "stopped" or "interrupted" in it in any case, the error toast
\* "Error" for every other message and for no message.
C37_ErrorClassification ==
  (\/ last.op = "error"
   \/ /\ last.op \in {"execution_state_change", "evaluation_state_change"}
      /\ last.arg.status = "error")
  => /\ Len(toasts) = 1
     /\ IF Mentions(last.arg.error, Stopped) \/ Mentions(last.arg.error, Interrupted)
        THEN toasts[1].title = "Stopped" /\ toasts[1].type = "info"
        ELSE toasts[1].title = "Error" /\ toasts[1].type = "error"

C37_Witness ==
  /\ last.op = "error"
  /\ last.arg.error = MsgInterrupted
  /\ Len(toasts) = 1
  /\ toasts[1].type = "info"

\* C38: an evaluation_state_change (optimization_state_change) with status error
\* requests the evaluations (optimizations) panel when the status of that run
\* before the message was not waiting, and requests nothing when it was waiting;
\* with any other status of the message nothing is requested.
C38_PanelRequest ==
  [][/\ last'.op = "evaluation_state_change"
          => IF last'.arg.status = "error" /\ evaluation.status # "waiting"
             THEN panelTimers' = panelTimers \cup {"evaluations"}
             ELSE panelTimers' = panelTimers
     /\ last'.op = "optimization_state_change"
          => IF last'.arg.status = "error" /\ optimization.status # "waiting"
             THEN panelTimers' = panelTimers \cup {"optimizations"}
             ELSE panelTimers' = panelTimers]_vars

C38_Witness ==
  /\ last.op = "evaluation_state_change"
  /\ last.arg.status = "error"
  /\ evaluation.status = "error"
  /\ panelTimers = {"evaluations"}
  /\ openResultsPanelRequest = "closed"
  /\ optimization.status = "error"
====
